---- MODULE Spec2Model ----
(***************************************************************************)
(* Model of the dependency-resolution directed graph of go-dgraph          *)
(* (src/dg.go).  A graph is a record of the fields of directedGraph plus   *)
(* the node objects it owns; every public method is one atomic action      *)
(* (each takes the graph mutex for its whole body).                        *)
(***************************************************************************)
EXTENDS Integers, FiniteSets, Sequences, TLC

\* ---------------------------------------------------------------- bounds
\* Number of node objects that may ever be created for one id.
MaxGen == 2
\* Number of successful edge insertions (connectNodes) in one behaviour.
MaxConnect == 3
\* Number of successful Disconnect* / Remove calls in one behaviour.
MaxUnlink == 1
\* Number of calls in one behaviour of a graph and its clone.
MaxCalls == 8

\* ------------------------------------------------------------- constants
Ids == {"a", "b", "c", "d"}
IdOrder ==
  [i \in Ids |->
     CASE i = "a" -> 1 [] i = "b" -> 2 [] i = "c" -> 3 [] i = "d" -> 4]
\* The ids in use when every method may be called at any time.
IdsAny == {"a", "b"}
\* The ids in use when the graph is built first and resolved afterwards.
IdsRun == {"a", "b", "c"}
\* The node whose dependencies are followed when all ids are in use.
Dependent == "d"

OrDependency == "or"
AndDependency == "and"
CompletionAndDependency == "completion-and"
ObviatedDependency == "obviated"
DependencyType ==
  {OrDependency, AndDependency, CompletionAndDependency, ObviatedDependency}
\* The dependency type of the tests that src/dg.go does not declare.
OptionalDependency == "optional"

Waiting == "waiting"
Resolved == "resolved"
Unresolvable == "unresolvable"
ResolutionStatus == {Waiting, Resolved, Unresolvable}

\* Absent key of outstandingDependencies.
NoDep == "none"
\* The nil error.
Nil == "nil"

\* A node object is identified by its id and the generation of that id.
Handles == Ids \X (1..MaxGen)
\* Slot of an object that has not been allocated.
NoObj == [alloc |-> FALSE]

VARIABLES
  nodes,                \* d.nodes: id -> generation of the object, 0 = no key
  obj,                  \* the node objects: handle -> fields
  readyForProcessing,   \* d.readyForProcessing: id -> generation, 0 = no key
  connectionsFromNode,  \* source id -> set of destination ids
  connectionsToNode,    \* destination id -> set of source ids
  depType,              \* type given to each existing edge when connected
  phase,                \* the caller's discipline, see Structural
  nConnect,             \* successful connectNodes calls so far
  nUnlink,              \* successful Disconnect* / Remove calls so far
  sincePop,             \* ids put on the ready queue since the last pop
  scan,                 \* the HasCycles call in progress and its locals
  clone,                \* the graph returned by Clone, if it was called
  nCalls,               \* calls so far on a graph and its clone
  resolvedDependencies, \* n.resolvedDependencies: handle -> id -> type
  exec                  \* the executor: nodes it holds, ids it was handed

vars == <<nodes, obj, readyForProcessing, connectionsFromNode,
          connectionsToNode, depType, phase, nConnect, nUnlink, sincePop,
          scan, clone, nCalls, resolvedDependencies, exec>>

\* ------------------------------------------------------------ the graph
\* The current graph as one value; enq collects the objects written to
\* readyForProcessing during one call, calls counts the calls of resolveNode
\* made during it, and lock tells whether d.lock is held.  obj holds the node objects of all
\* graphs; self tells the graphs apart (the dg field of a node points to its
\* graph).
Cur ==
  [nodes |-> nodes, obj |-> obj, readyForProcessing |-> readyForProcessing,
   connectionsFromNode |-> connectionsFromNode,
   connectionsToNode |-> connectionsToNode, enq |-> {}, self |-> 1, lock |-> FALSE, calls |-> 0]

New ==
  [nodes |-> [i \in Ids |-> 0],
   obj |-> [h \in Handles |-> NoObj],
   readyForProcessing |-> [i \in Ids |-> 0],
   connectionsFromNode |-> [i \in {} |-> {}],
   connectionsToNode |-> [i \in {} |-> {}],
   enq |-> {}, self |-> 1, lock |-> FALSE, calls |-> 0]

Result(G, e) == [g |-> G, err |-> e]

\* Go map helpers: m[k] of an absent key is the zero value.
Get(m, k) == IF k \in DOMAIN m THEN m[k] ELSE {}
Put(m, k, v) == [x \in DOMAIN m \cup {k} |-> IF x = k THEN v ELSE m[x]]
Del(m, k) == [x \in DOMAIN m \ {k} |-> m[x]]

\* The node objects of graph G, removed ones included.
Allocated(G) == {h \in Handles : G.obj[h].alloc /\ G.obj[h].dg = G.self}
\* The object d.nodes[id].
NodeOf(G, id) == <<id, G.nodes[id]>>
HasNode(G, id) == G.nodes[id] # 0
Live(G) == {NodeOf(G, i) : i \in {j \in Ids : HasNode(G, j)}}
\* The node objects a caller can hold from graph G: those it got from
\* AddNode, GetNodeByID or ListNodes.
HandlesOf(G) == Allocated(G) \cup Live(G)
Gens(G, id) == Cardinality({h \in Handles : G.obj[h].alloc /\ h[1] = id})

\* ----------------------------------------------- cloneMap, HasCycles
\* A new two-level map with the same keys and the same sets.
cloneMap(source) ==
  [nodeID1 \in DOMAIN source |-> {nodeID2 \in source[nodeID1] : TRUE}]

\* Mutant: the selected nodes are removed, their connections are not.
RECURSIVE HasCyclesLoop_KeepsConnections(_)
HasCyclesLoop_KeepsConnections(connectionsToNode_) ==
  LET removeNodeIDs ==
        {nodeID \in DOMAIN connectionsToNode_ : connectionsToNode_[nodeID] = {}}
  IN IF removeNodeIDs = {}
     THEN DOMAIN connectionsToNode_ # {}
     ELSE HasCyclesLoop_KeepsConnections(
            [targetNodeID \in DOMAIN connectionsToNode_ \ removeNodeIDs |->
               connectionsToNode_[targetNodeID]])

\* The loop of HasCycles on its local copy of the reverse adjacency.
RECURSIVE HasCyclesLoop(_)
HasCyclesLoop(connectionsToNode_) ==
  LET removeNodeIDs ==
        {nodeID \in DOMAIN connectionsToNode_ : connectionsToNode_[nodeID] = {}}
  IN IF removeNodeIDs = {}
     THEN DOMAIN connectionsToNode_ # {}
     ELSE HasCyclesLoop(
            [targetNodeID \in DOMAIN connectionsToNode_ \ removeNodeIDs |->
               connectionsToNode_[targetNodeID] \ removeNodeIDs])

\* HasCycles run without interference: the value returned and the graph
\* afterwards.
HasCycles(G) ==
  [val |-> HasCyclesLoop(cloneMap(G.connectionsToNode)), g |-> G]

\* --------------------------------------------------------------- Clone
\* Mutant: the new graph holds the node objects of the old one.
Clone_SharesNodes(G) ==
  [g |-> G, err |-> Nil,
   val |-> [on |-> TRUE,
            nodes |-> G.nodes,
            readyForProcessing |-> [i \in Ids |-> 0],
            connectionsFromNode |-> cloneMap(G.connectionsFromNode),
            connectionsToNode |-> cloneMap(G.connectionsToNode)]]

\* Mutant: the ready flag of the new node objects is not copied.
Clone_NotReady(G) ==
  LET newNode(nodeID) == <<nodeID, Gens(G, nodeID) + 1>>
      nodeData(nodeID) == G.obj[NodeOf(G, nodeID)]
      objs == [h \in Handles |->
                 IF HasNode(G, h[1]) /\ h = newNode(h[1])
                 THEN [alloc |-> TRUE,
                       deleted |-> nodeData(h[1]).deleted,
                       ready |-> FALSE,
                       status |-> nodeData(h[1]).status,
                       outstandingDependencies |->
                         [i \in Ids |->
                            nodeData(h[1]).outstandingDependencies[i]],
                       dg |-> 2]
                 ELSE G.obj[h]]
  IN [g |-> [G EXCEPT !.obj = objs], err |-> Nil,
      val |-> [on |-> TRUE,
               nodes |-> [i \in Ids |->
                            IF HasNode(G, i) THEN newNode(i)[2] ELSE 0],
               readyForProcessing |-> [i \in Ids |-> 0],
               connectionsFromNode |-> cloneMap(G.connectionsFromNode),
               connectionsToNode |-> cloneMap(G.connectionsToNode)]]

\* val is the new graph; its node objects are new objects in obj.
Clone(G) ==
  LET newNode(nodeID) == <<nodeID, Gens(G, nodeID) + 1>>
      nodeData(nodeID) == G.obj[NodeOf(G, nodeID)]
      objs == [h \in Handles |->
                 IF HasNode(G, h[1]) /\ h = newNode(h[1])
                 THEN [alloc |-> TRUE,
                       deleted |-> nodeData(h[1]).deleted,
                       ready |-> nodeData(h[1]).ready,
                       status |-> nodeData(h[1]).status,
                       outstandingDependencies |->
                         [i \in Ids |->
                            nodeData(h[1]).outstandingDependencies[i]],
                       dg |-> 2]
                 ELSE G.obj[h]]
  IN [g |-> [G EXCEPT !.obj = objs], err |-> Nil,
      val |-> [on |-> TRUE,
               nodes |-> [i \in Ids |->
                            IF HasNode(G, i) THEN newNode(i)[2] ELSE 0],
               readyForProcessing |-> [i \in Ids |-> 0],
               connectionsFromNode |-> cloneMap(G.connectionsFromNode),
               connectionsToNode |-> cloneMap(G.connectionsToNode)]]

\* ------------------------------------------------------------- AddNode
AddNode(G, id) ==
  IF HasNode(G, id)
  THEN Result(G, "ErrNodeAlreadyExists")
  ELSE LET h == <<id, Gens(G, id) + 1>>
       IN Result([G EXCEPT
                   !.nodes[id] = h[2],
                   !.obj[h] = [alloc |-> TRUE, deleted |-> FALSE,
                               ready |-> FALSE, status |-> Waiting,
                               outstandingDependencies |->
                                 [i \in Ids |-> NoDep],
                               dg |-> G.self],
                   !.connectionsToNode = Put(@, id, {}),
                   !.connectionsFromNode = Put(@, id, {})], Nil)

\* -------------------------------------------------------- connectNodes
\* Mutant: a new dependency makes the destination not ready again.
connectNodes_ResetReady(G, fromID, toID, dependencyType) ==
  IF ~HasNode(G, fromID) THEN Result(G, "ErrNodeNotFound")
  ELSE IF G.obj[NodeOf(G, fromID)].deleted THEN Result(G, "ErrNodeDeleted")
  ELSE IF ~HasNode(G, toID) THEN Result(G, "ErrNodeNotFound")
  ELSE IF G.obj[NodeOf(G, toID)].deleted THEN Result(G, "ErrNodeDeleted")
  ELSE IF fromID = toID THEN Result(G, "ErrCannotConnectToSelf")
  ELSE IF toID \in Get(G.connectionsFromNode, fromID)
  THEN Result(G, "ErrConnectionAlreadyExists")
  ELSE Result([G EXCEPT
                !.connectionsFromNode[fromID] = @ \cup {toID},
                !.connectionsToNode[toID] = @ \cup {fromID},
                !.obj[NodeOf(G, toID)].ready = FALSE,
                !.obj[NodeOf(G, toID)].outstandingDependencies[fromID] =
                  dependencyType], Nil)

\* Mutant: a connection from a node to itself is accepted.
connectNodes_NoSelfCheck(G, fromID, toID, dependencyType) ==
  IF ~HasNode(G, fromID) THEN Result(G, "ErrNodeNotFound")
  ELSE IF G.obj[NodeOf(G, fromID)].deleted THEN Result(G, "ErrNodeDeleted")
  ELSE IF ~HasNode(G, toID) THEN Result(G, "ErrNodeNotFound")
  ELSE IF G.obj[NodeOf(G, toID)].deleted THEN Result(G, "ErrNodeDeleted")
  ELSE IF toID \in Get(G.connectionsFromNode, fromID)
  THEN Result(G, "ErrConnectionAlreadyExists")
  ELSE Result([G EXCEPT
                !.connectionsFromNode[fromID] = @ \cup {toID},
                !.connectionsToNode[toID] = @ \cup {fromID},
                !.obj[NodeOf(G, toID)].outstandingDependencies[fromID] =
                  dependencyType], Nil)

\* Mutant: a duplicate connection overwrites the dependency type before it
\* is refused.
connectNodes_Overwrite(G, fromID, toID, dependencyType) ==
  IF ~HasNode(G, fromID) THEN Result(G, "ErrNodeNotFound")
  ELSE IF G.obj[NodeOf(G, fromID)].deleted THEN Result(G, "ErrNodeDeleted")
  ELSE IF ~HasNode(G, toID) THEN Result(G, "ErrNodeNotFound")
  ELSE IF G.obj[NodeOf(G, toID)].deleted THEN Result(G, "ErrNodeDeleted")
  ELSE IF fromID = toID THEN Result(G, "ErrCannotConnectToSelf")
  ELSE IF toID \in Get(G.connectionsFromNode, fromID)
  THEN Result([G EXCEPT
                !.obj[NodeOf(G, toID)].outstandingDependencies[fromID] =
                  dependencyType], "ErrConnectionAlreadyExists")
  ELSE Result([G EXCEPT
                !.connectionsFromNode[fromID] = @ \cup {toID},
                !.connectionsToNode[toID] = @ \cup {fromID},
                !.obj[NodeOf(G, toID)].outstandingDependencies[fromID] =
                  dependencyType], Nil)

connectNodes(G, fromID, toID, dependencyType) ==
  IF ~HasNode(G, fromID) THEN Result(G, "ErrNodeNotFound")
  ELSE IF G.obj[NodeOf(G, fromID)].deleted THEN Result(G, "ErrNodeDeleted")
  ELSE IF ~HasNode(G, toID) THEN Result(G, "ErrNodeNotFound")
  ELSE IF G.obj[NodeOf(G, toID)].deleted THEN Result(G, "ErrNodeDeleted")
  ELSE IF fromID = toID THEN Result(G, "ErrCannotConnectToSelf")
  ELSE IF toID \in Get(G.connectionsFromNode, fromID)
  THEN Result(G, "ErrConnectionAlreadyExists")
  ELSE Result([G EXCEPT
                !.connectionsFromNode[fromID] = @ \cup {toID},
                !.connectionsToNode[toID] = @ \cup {fromID},
                !.obj[NodeOf(G, toID)].outstandingDependencies[fromID] =
                  dependencyType], Nil)

\* Mutant: Connect makes the edge in the opposite direction.
node_Connect_Reversed(G, n, nodeID) ==
  connectNodes(G, nodeID, n[1], AndDependency)

\* n.Connect(nodeID)
node_Connect(G, n, nodeID) ==
  connectNodes(G, n[1], nodeID, AndDependency)

\* n.ConnectDependency(fromNodeID, dependencyType)
node_ConnectDependency(G, n, fromNodeID, dependencyType) ==
  connectNodes(G, fromNodeID, n[1], dependencyType)

\* ------------------------------------------------------------ observers
\* val is the returned node object, or the set of ids (keys) returned.
GetNodeByID(G, id) ==
  IF ~HasNode(G, id) THEN [val |-> <<>>, err |-> "ErrNodeNotFound"]
  ELSE [val |-> NodeOf(G, id), err |-> Nil]

ListNodes(G) == {i \in Ids : HasNode(G, i)}

ListInboundConnections(G, n) ==
  IF G.obj[n].deleted THEN [val |-> {}, err |-> "ErrNodeDeleted"]
  ELSE [val |-> Get(G.connectionsToNode, n[1]), err |-> Nil]

ListOutboundConnections(G, n) ==
  IF G.obj[n].deleted THEN [val |-> {}, err |-> "ErrNodeDeleted"]
  ELSE [val |-> Get(G.connectionsFromNode, n[1]), err |-> Nil]

\* --------------------------------------------------- PushStartingNodes
PushStartingNodes(G) ==
  LET starting == {h \in Live(G) :
                     \A i \in Ids : G.obj[h].outstandingDependencies[i] = NoDep}
  IN Result([G EXCEPT
              !.readyForProcessing =
                [i \in Ids |-> IF NodeOf(G, i) \in starting
                               THEN G.nodes[i] ELSE @[i]],
              !.enq = @ \cup starting], Nil)

\* ------------------------------------------------------- PopReadyNodes
\* The objects handed to the caller.
ReadyNodes(G) ==
  {<<i, G.readyForProcessing[i]>> : i \in {j \in Ids : G.readyForProcessing[j] # 0}}

\* Mutant: the queue is returned but not replaced by an empty one.
PopReadyNodes_NoReset(G) ==
  [g |-> G, err |-> Nil, val |-> ReadyNodes(G)]

\* val is the slice of node objects returned.
PopReadyNodes(G) ==
  [g |-> [G EXCEPT !.readyForProcessing = [i \in Ids |-> 0]],
   err |-> Nil, val |-> ReadyNodes(G)]

\* ------------------------------------------- node helpers (dg.go 470-487)
\* Mutant: a dependency of any type counts.
hasOutstandingDependency_AnyType(G, n, expectedDependencyType) ==
  \E i \in Ids : G.obj[n].outstandingDependencies[i] # NoDep

hasOutstandingDependency(G, n, expectedDependencyType) ==
  \E i \in Ids : G.obj[n].outstandingDependencies[i] = expectedDependencyType

\* Mutant: the other Or dependencies keep their type.
markOrsObviated_Keeps(G, n) == G

markOrsObviated(G, n) ==
  [G EXCEPT !.obj[n].outstandingDependencies =
     [i \in Ids |-> IF @[i] = OrDependency THEN ObviatedDependency ELSE @[i]]]

\* n.ready = true; n.dg.readyForProcessing[n.id] = n
markReady(G, n) ==
  [G EXCEPT !.obj[n].ready = TRUE,
            !.readyForProcessing[n[1]] = n[2],
            !.enq = @ \cup {n}]

\* ------------------------------------ resolveNode / dependencyResolved
\* Both return the SET of possible results: Go ranges over the outbound
\* connections in an unspecified order, and an error ends the loop.
RECURSIVE resolveNode(_, _, _)
RECURSIVE dependencyResolved(_, _, _, _)
RECURSIVE propagate(_, _, _, _)

\* The loop of resolveNode over the outbound connections still to visit.
propagate(G, n, status, remaining) ==
  IF remaining = {}
  THEN {Result(G, Nil)}
  ELSE UNION {
         UNION {IF r.err # Nil
                THEN {r}
                ELSE propagate(r.g, n, status, remaining \ {outboundConnectionID})
                : r \in dependencyResolved(G, NodeOf(G, outboundConnectionID),
                                           n[1], status)}
         : outboundConnectionID \in remaining}

\* Mutant: the guard against a second resolution is missing.
resolveNode_NoGuard(G, n, status) ==
  LET G0 == [G EXCEPT !.calls = @ + 1] IN
  IF G0.obj[n].deleted THEN {Result(G0, "ErrNodeDeleted")}
  ELSE LET G1 == [G0 EXCEPT !.obj[n].status = status]
       IN IF status = Waiting
          THEN {Result(G1, Nil)}
          ELSE propagate(G1, n, status, Get(G1.connectionsFromNode, n[1]))

\* Mutant: only a resolution to the same status is refused.
resolveNode_SameOnly(G, n, status) ==
  LET G0 == [G EXCEPT !.calls = @ + 1] IN
  IF G0.obj[n].deleted THEN {Result(G0, "ErrNodeDeleted")}
  ELSE IF G0.obj[n].status # Waiting /\ G0.obj[n].status = status
  THEN {Result(G0, "ErrNodeResolutionAlreadySet")}
  ELSE LET G1 == [G0 EXCEPT !.obj[n].status = status]
       IN IF status = Waiting
          THEN {Result(G1, Nil)}
          ELSE propagate(G1, n, status, Get(G1.connectionsFromNode, n[1]))

\* Mutant: a resolution to Waiting is passed on to the neighbours.
resolveNode_WaitingPropagates(G, n, status) ==
  LET G0 == [G EXCEPT !.calls = @ + 1] IN
  IF G0.obj[n].deleted THEN {Result(G0, "ErrNodeDeleted")}
  ELSE IF G0.obj[n].status # Waiting
  THEN {Result(G0, "ErrNodeResolutionAlreadySet")}
  ELSE LET G1 == [G0 EXCEPT !.obj[n].status = status]
       IN propagate(G1, n, status, Get(G1.connectionsFromNode, n[1]))

\* Mutant: the node that is resolved is put on the ready queue itself.
resolveNode_ReadiesSelf(G, n, status) ==
  LET G0 == [G EXCEPT !.calls = @ + 1] IN
  IF G0.obj[n].deleted THEN {Result(G0, "ErrNodeDeleted")}
  ELSE IF G0.obj[n].status # Waiting
  THEN {Result(G0, "ErrNodeResolutionAlreadySet")}
  ELSE LET G1 == markReady([G0 EXCEPT !.obj[n].status = status], n)
       IN IF status = Waiting
          THEN {Result(G1, Nil)}
          ELSE propagate(G1, n, status, Get(G1.connectionsFromNode, n[1]))

resolveNode(G, n, status) ==
  LET G0 == [G EXCEPT !.calls = @ + 1] IN
  IF G0.obj[n].deleted THEN {Result(G0, "ErrNodeDeleted")}
  ELSE IF G0.obj[n].status # Waiting
  THEN {Result(G0, "ErrNodeResolutionAlreadySet")}
  ELSE LET G1 == [G0 EXCEPT !.obj[n].status = status]
       IN IF status = Waiting
          THEN {Result(G1, Nil)}
          ELSE propagate(G1, n, status, Get(G1.connectionsFromNode, n[1]))

dependencyResolved(G, n, dependencyNodeID, dependencyResolution) ==
  IF G.obj[n].deleted THEN {Result(G, "ErrNodeDeleted")}
  ELSE IF dependencyResolution = Waiting
  THEN {Result(G, "ErrNotifiedOfWaiting")}
  ELSE
  LET dependencyType == G.obj[n].outstandingDependencies[dependencyNodeID]
      G1 == [G EXCEPT !.obj[n].outstandingDependencies[dependencyNodeID] = NoDep]
  IN
  IF dependencyType = NoDep
  THEN IF dependencyNodeID \in Get(G.connectionsToNode, n[1])
       THEN {Result(G, "panic: ErrDuplicateDependencyResolution")}
       ELSE {Result(G, "panic: ErrConnectionDoesNotExist")}
  ELSE IF dependencyType = ObviatedDependency
  THEN {Result(G1, Nil)}
  ELSE IF dependencyResolution = Unresolvable
          /\ dependencyType # CompletionAndDependency
  THEN IF dependencyType = AndDependency
          \/ ~hasOutstandingDependency(G1, n, OrDependency)
       THEN resolveNode(markReady(G1, n), n, Unresolvable)
       ELSE {Result(G1, Nil)}
  ELSE
  LET G2 == IF dependencyType = OrDependency THEN markOrsObviated(G1, n) ELSE G1
      hasOrDependency ==
        IF dependencyType = OrDependency
        THEN FALSE
        ELSE hasOutstandingDependency(G2, n, OrDependency)
      hasAndDependency ==
        hasOutstandingDependency(G2, n, AndDependency)
        \/ hasOutstandingDependency(G2, n, CompletionAndDependency)
  IN IF ~(hasAndDependency \/ hasOrDependency)
     THEN {Result(markReady(G2, n), Nil)}
     ELSE {Result(G2, Nil)}

\* ------------------------------------------- resolved dependencies
\* The tests call ResolvedDependencies and connect OptionalDependency
\* edges; the handler that serves them keeps, next to the outstanding map,
\* the map of the dependencies that resolved, and is given here with the
\* same steps as dependencyResolved.  R is that map for every node object.
ResultR(G, R, err) == [g |-> G, resolved |-> R, err |-> err]

\* ResolvedDependencies(): the dependencies of n that resolved, as a map.
ResolvedDependencies(R, n) ==
  [i \in {j \in Ids : R[n][j] # NoDep} |-> R[n][i]]

\* OutstandingDependencies(): the dependencies of n still outstanding.
OutstandingDependencies(G, n) ==
  [i \in {j \in Ids : G.obj[n].outstandingDependencies[j] # NoDep} |->
     G.obj[n].outstandingDependencies[i]]

\* When n becomes ready the Optional dependencies it did not wait for are
\* closed: they stay outstanding with type Obviated.
\* Mutant: the Optional dependencies keep their type when n becomes ready.
markOptionalsObviated_Keeps(G, n) == G

markOptionalsObviated(G, n) ==
  [G EXCEPT !.obj[n].outstandingDependencies =
     [i \in Ids |->
        IF @[i] = OptionalDependency THEN ObviatedDependency ELSE @[i]]]

RECURSIVE resolveNodeRecording(_, _, _, _)
RECURSIVE dependencyResolvedRecording(_, _, _, _, _)
RECURSIVE propagateRecording(_, _, _, _, _)

propagateRecording(G, R, n, status, remaining) ==
  IF remaining = {}
  THEN {ResultR(G, R, Nil)}
  ELSE UNION {
         UNION {IF r.err # Nil
                THEN {r}
                ELSE propagateRecording(r.g, r.resolved, n, status,
                                        remaining \ {outboundConnectionID})
                : r \in dependencyResolvedRecording(
                          G, R, NodeOf(G, outboundConnectionID), n[1], status)}
         : outboundConnectionID \in remaining}

resolveNodeRecording(G, R, n, status) ==
  IF G.obj[n].deleted THEN {ResultR(G, R, "ErrNodeDeleted")}
  ELSE IF G.obj[n].status # Waiting
  THEN {ResultR(G, R, "ErrNodeResolutionAlreadySet")}
  ELSE LET G1 == [G EXCEPT !.obj[n].status = status]
       IN IF status = Waiting
          THEN {ResultR(G1, R, Nil)}
          ELSE propagateRecording(G1, R, n, status,
                                  Get(G1.connectionsFromNode, n[1]))

\* Mutant: an Optional dependency is handled with the steps of the other
\* types, as a requirement of the node.
dependencyResolvedRecording_Required(G, R, n, dependencyNodeID, dependencyResolution) ==
  LET dependencyType == G.obj[n].outstandingDependencies[dependencyNodeID]
      G1 == [G EXCEPT !.obj[n].outstandingDependencies[dependencyNodeID] = NoDep]
      R1 == IF dependencyResolution = Resolved
            THEN [R EXCEPT ![n][dependencyNodeID] = dependencyType]
            ELSE R
  IN
  IF dependencyType = ObviatedDependency
  THEN {ResultR(G1, R1, Nil)}
  ELSE IF dependencyResolution = Unresolvable
  THEN IF dependencyType # OrDependency
          \/ ~hasOutstandingDependency(G1, n, OrDependency)
       THEN resolveNodeRecording(markOptionalsObviated(markReady(G1, n), n),
                                 R1, n, Unresolvable)
       ELSE {ResultR(G1, R1, Nil)}
  ELSE
  LET G2 == IF dependencyType = OrDependency THEN markOrsObviated(G1, n) ELSE G1
  IN IF ~(hasOutstandingDependency(G2, n, AndDependency)
          \/ hasOutstandingDependency(G2, n, OrDependency))
     THEN {ResultR(markOptionalsObviated(markReady(G2, n), n), R1, Nil)}
     ELSE {ResultR(G2, R1, Nil)}

dependencyResolvedRecording(G, R, n, dependencyNodeID, dependencyResolution) ==
  IF G.obj[n].deleted THEN {ResultR(G, R, "ErrNodeDeleted")}
  ELSE IF dependencyResolution = Waiting
  THEN {ResultR(G, R, "ErrNotifiedOfWaiting")}
  ELSE
  LET dependencyType == G.obj[n].outstandingDependencies[dependencyNodeID]
      G1 == [G EXCEPT !.obj[n].outstandingDependencies[dependencyNodeID] = NoDep]
      \* The type the dependency has at this moment is what is recorded.
      R1 == IF dependencyResolution = Resolved
            THEN [R EXCEPT ![n][dependencyNodeID] = dependencyType]
            ELSE R
  IN
  IF dependencyType = NoDep
  THEN IF dependencyNodeID \in Get(G.connectionsToNode, n[1])
       THEN {ResultR(G, R, "panic: ErrDuplicateDependencyResolution")}
       ELSE {ResultR(G, R, "panic: ErrConnectionDoesNotExist")}
  ELSE IF dependencyType \in {ObviatedDependency, OptionalDependency}
  THEN {ResultR(G1, R1, Nil)}
  ELSE IF dependencyResolution = Unresolvable
          /\ dependencyType # CompletionAndDependency
  THEN IF dependencyType = AndDependency
          \/ ~hasOutstandingDependency(G1, n, OrDependency)
       THEN resolveNodeRecording(markOptionalsObviated(markReady(G1, n), n),
                                 R1, n, Unresolvable)
       ELSE {ResultR(G1, R1, Nil)}
  ELSE
  LET G2 == IF dependencyType = OrDependency THEN markOrsObviated(G1, n) ELSE G1
      hasOrDependency ==
        IF dependencyType = OrDependency
        THEN FALSE
        ELSE hasOutstandingDependency(G2, n, OrDependency)
      hasAndDependency ==
        hasOutstandingDependency(G2, n, AndDependency)
        \/ hasOutstandingDependency(G2, n, CompletionAndDependency)
  IN IF ~(hasAndDependency \/ hasOrDependency)
     THEN {ResultR(markOptionalsObviated(markReady(G2, n), n), R1, Nil)}
     ELSE {ResultR(G2, R1, Nil)}

\* ---------------------------------------------------------- ResolveNode
\* The graph after one more call of resolveNode.
Called(G) == [G EXCEPT !.calls = @ + 1]

\* A second Lock of d.lock by the goroutine that holds it never returns.
Deadlock == "fatal error: all goroutines are asleep - deadlock!"

\* Mutant: the lock is not released when the call returns.
node_ResolveNode_NoUnlock(G, n, status) ==
  IF G.lock THEN {Result(G, Deadlock)}
  ELSE resolveNode([G EXCEPT !.lock = TRUE], n, status)

\* ResolveNode: Lock, defer Unlock, resolveNode.
node_ResolveNode(G, n, status) ==
  IF G.lock THEN {Result(G, Deadlock)}
  ELSE {Result([r.g EXCEPT !.lock = FALSE], r.err) :
          r \in resolveNode([G EXCEPT !.lock = TRUE], n, status)}

\* ------------------------------------------------- Disconnect / Remove
\* Mutant: the edge is taken out of the reverse map only.
DisconnectInbound_OneSided(G, n, fromNodeID) ==
  IF G.obj[n].deleted THEN Result(G, "ErrNodeDeleted")
  ELSE IF ~HasNode(G, fromNodeID) THEN Result(G, "ErrNodeNotFound")
  ELSE IF fromNodeID \notin Get(G.connectionsToNode, n[1])
  THEN Result(G, "ErrConnectionDoesNotExist")
  ELSE Result([G EXCEPT !.connectionsToNode[n[1]] = @ \ {fromNodeID}], Nil)

DisconnectInbound(G, n, fromNodeID) ==
  IF G.obj[n].deleted THEN Result(G, "ErrNodeDeleted")
  ELSE IF ~HasNode(G, fromNodeID) THEN Result(G, "ErrNodeNotFound")
  ELSE IF fromNodeID \notin Get(G.connectionsToNode, n[1])
  THEN Result(G, "ErrConnectionDoesNotExist")
  ELSE Result([G EXCEPT !.connectionsToNode[n[1]] = @ \ {fromNodeID},
                        !.connectionsFromNode[fromNodeID] = @ \ {n[1]}], Nil)

DisconnectOutbound(G, n, toNodeID) ==
  IF G.obj[n].deleted THEN Result(G, "ErrNodeDeleted")
  ELSE IF ~HasNode(G, toNodeID) THEN Result(G, "ErrNodeNotFound")
  ELSE IF toNodeID \notin Get(G.connectionsFromNode, n[1])
  THEN Result(G, "ErrConnectionDoesNotExist")
  ELSE Result([G EXCEPT !.connectionsFromNode[n[1]] = @ \ {toNodeID},
                        !.connectionsToNode[toNodeID] = @ \ {n[1]}], Nil)

\* Mutant: Remove leaves the node in the inbound sets of its destinations.
Remove_KeepsInbound(G, n) ==
  IF G.obj[n].deleted THEN Result(G, "ErrNodeDeleted")
  ELSE
  LET id == n[1]
      from1 == Del(G.connectionsFromNode, id)
      from2 == [x \in DOMAIN from1 |->
                  IF x \in G.connectionsToNode[id] THEN from1[x] \ {id}
                  ELSE from1[x]]
      to2 == Del(G.connectionsToNode, id)
  IN Result([G EXCEPT !.connectionsFromNode = from2,
                      !.connectionsToNode = to2,
                      !.nodes[id] = 0,
                      !.obj[n].deleted = TRUE], Nil)

Remove(G, n) ==
  IF G.obj[n].deleted THEN Result(G, "ErrNodeDeleted")
  ELSE
  LET id == n[1]
      to1 == [x \in DOMAIN G.connectionsToNode |->
                IF x \in G.connectionsFromNode[id]
                THEN G.connectionsToNode[x] \ {id} ELSE G.connectionsToNode[x]]
      from1 == Del(G.connectionsFromNode, id)
      from2 == [x \in DOMAIN from1 |->
                  IF x \in to1[id] THEN from1[x] \ {id} ELSE from1[x]]
      to2 == Del(to1, id)
  IN Result([G EXCEPT !.connectionsFromNode = from2,
                      !.connectionsToNode = to2,
                      !.nodes[id] = 0,
                      !.obj[n].deleted = TRUE], Nil)

\* ------------------------------------------------------------ behaviour
NoEdges == [p \in Ids \X Ids |-> NoDep]
\* The executor has popped nothing.  pending: the popped nodes it has still
\* to resolve; returned: the ids PopReadyNodes has handed to it.
NoExec == [pending |-> {}, returned |-> {}]
\* No node has a resolved dependency.
NoResolved == [h \in Handles |-> [i \in Ids |-> NoDep]]

\* The nodes that the nodes of S lead to by one or more edges.
RECURSIVE Reach(_, _)
Reach(G, S) ==
  LET more == UNION {Get(G.connectionsFromNode, x) : x \in S}
  IN IF more \subseteq S THEN S ELSE Reach(G, S \cup more)

\* The edge set of G has a directed cycle.
Cyclic(G) ==
  \E i \in DOMAIN G.connectionsFromNode :
    i \in Reach(G, G.connectionsFromNode[i])

\* No HasCycles call.  copy: the local connectionsToNode as far as cloneMap
\* has filled it; val: the value returned; cyc, acyc: a graph with, without
\* a cycle existed during the call; raced: the graph was written during the
\* call.
NoScan ==
  [pc |-> "idle", copy |-> <<>>, val |-> FALSE,
   cyc |-> FALSE, acyc |-> FALSE, raced |-> FALSE]

\* What a call in progress can see of a write by another thread.
Observe(G) ==
  IF scan.pc # "copy" THEN scan
  ELSE [scan EXCEPT !.cyc = @ \/ Cyclic(G),
                    !.acyc = @ \/ ~Cyclic(G),
                    !.raced = @ \/ G.connectionsToNode # connectionsToNode]

\* No second graph.
NoClone ==
  [on |-> FALSE, nodes |-> New.nodes,
   readyForProcessing |-> New.readyForProcessing,
   connectionsFromNode |-> New.connectionsFromNode,
   connectionsToNode |-> New.connectionsToNode]

\* The graph of result r becomes the current graph.
StoreGraph(r) ==
  /\ phase = "clone" => nCalls < MaxCalls
  /\ nCalls' = IF phase = "clone" THEN nCalls + 1 ELSE nCalls
  /\ scan' = Observe(r.g)
  /\ clone' = clone
  /\ nodes' = r.g.nodes
  /\ obj' = r.g.obj
  /\ readyForProcessing' = r.g.readyForProcessing
  /\ connectionsFromNode' = r.g.connectionsFromNode
  /\ connectionsToNode' = r.g.connectionsToNode

\* The end of a call of src/dg.go, which keeps no resolved dependencies.
Store(r) ==
  /\ StoreGraph(r)
  /\ UNCHANGED <<resolvedDependencies, exec>>

\* The end of a call that is not PopReadyNodes: the ids it put on the ready
\* queue are remembered.
Commit(r) ==
  /\ Store(r)
  /\ sincePop' = sincePop \cup {h[1] : h \in r.g.enq}

\* depType follows the edge set: edges that disappeared lose their type.
EdgeTypes(G, types) ==
  [p \in Ids \X Ids |->
     IF p[2] \in Get(G.connectionsFromNode, p[1]) THEN types[p] ELSE NoDep]

\* The caller's discipline.  "any": every method at any time.  "build" then
\* "run": the graph is built in topological order of the ids, then
\* PushStartingNodes is called once, then nodes are resolved and popped.
\* "clone": every method at any time on a graph and, after one call of
\* Clone, on its clone; edges follow the order of the ids.
\* "scan": the graph is built and changed while a thread calls HasCycles
\* once; the behaviour is followed until that call returns.
Structural ==
  phase \in {"any", "build", "scan", "clone", "deps", "plan"}
  /\ scan.pc \notin {"fatal", "done"}
Dynamic == phase \in {"any", "run", "clone", "resolve"}
InUse ==
  IF phase \in {"any", "clone"} THEN IdsAny
  ELSE IF phase \in {"deps", "resolve", "plan", "exec"} THEN Ids
  ELSE IdsRun
\* HasCycles and Clone read no dependency type: two types are used around
\* them.
TypesInUse ==
  IF phase \in {"scan", "clone"} THEN {AndDependency, OrDependency}
  ELSE IF phase = "deps"
  THEN {AndDependency, OrDependency, OptionalDependency}
  ELSE IF phase = "plan"
  THEN {AndDependency, OrDependency, CompletionAndDependency}
  ELSE DependencyType

InitGraph ==
  /\ nodes = New.nodes
  /\ obj = New.obj
  /\ readyForProcessing = New.readyForProcessing
  /\ connectionsFromNode = New.connectionsFromNode
  /\ connectionsToNode = New.connectionsToNode
  /\ depType = NoEdges
  /\ nConnect = 0
  /\ nUnlink = 0
  /\ sincePop = {}
  /\ scan = NoScan
  /\ clone = NoClone
  /\ nCalls = 0
  /\ resolvedDependencies = NoResolved
  /\ exec = NoExec

Init == InitGraph /\ phase = "any"

InitRun == InitGraph /\ phase = "build"

InitScan == InitGraph /\ phase = "scan"

InitClone == InitGraph /\ phase = "clone"

\* Ids are interchangeable: a fresh id is taken only after the ids before it.
InOrder(id) ==
  /\ id \in InUse
  /\ \A j \in Ids : IdOrder[j] < IdOrder[id] => Gens(Cur, j) > 0

DoAddNode ==
  \E id \in Ids :
    LET r == AddNode(Cur, id)
    IN /\ Structural
       /\ InOrder(id)
       /\ Gens(Cur, id) < MaxGen
       /\ r.err = Nil
       /\ Commit(r)
       /\ UNCHANGED <<depType, phase, nConnect, nUnlink>>

\* A call of connectNodes made through Connect or ConnectDependency, with
\* result r.
DoConnectNodes(r, fromID, toID, dependencyType) ==
  /\ Structural
  /\ nConnect < MaxConnect
  /\ phase \in {"build", "clone", "plan"} => IdOrder[fromID] < IdOrder[toID]
  /\ phase = "deps" => toID = Dependent
  /\ r.err = Nil
  /\ Commit(r)
  /\ nConnect' = nConnect + 1
  /\ depType' = IF phase \in {"any", "clone"} THEN depType
                ELSE [depType EXCEPT ![<<fromID, toID>>] = dependencyType]
  /\ UNCHANGED <<phase, nUnlink>>

Connect ==
  \E n \in Allocated(Cur), nodeID \in Ids :
    DoConnectNodes(node_Connect(Cur, n, nodeID), n[1], nodeID, AndDependency)

ConnectDependency ==
  \E n \in Allocated(Cur), fromNodeID \in Ids, dependencyType \in TypesInUse :
    DoConnectNodes(node_ConnectDependency(Cur, n, fromNodeID, dependencyType),
                   fromNodeID, n[1], dependencyType)

DoUnlink(r) ==
  /\ Structural
  /\ nUnlink < MaxUnlink
  /\ r.err = Nil
  /\ Commit(r)
  /\ nUnlink' = nUnlink + 1
  /\ depType' = EdgeTypes(r.g, depType)
  /\ UNCHANGED <<phase, nConnect>>

DoDisconnectInbound ==
  \E n \in Allocated(Cur), fromNodeID \in Ids :
    DoUnlink(DisconnectInbound(Cur, n, fromNodeID))

DoDisconnectOutbound ==
  \E n \in Allocated(Cur), toNodeID \in Ids :
    DoUnlink(DisconnectOutbound(Cur, n, toNodeID))

DoRemove ==
  \E n \in Allocated(Cur) :
    DoUnlink(Remove(Cur, n))

DoPushStartingNodes ==
  LET r == PushStartingNodes(Cur)
  IN /\ phase \notin {"run", "resolve", "exec"}
     /\ Commit(r)
     /\ phase' = IF phase = "build" THEN "run"
                ELSE IF phase = "deps" THEN "resolve"
                ELSE IF phase = "plan" THEN "exec"
                ELSE phase
     /\ UNCHANGED <<depType, nConnect, nUnlink>>

DoPopReadyNodes ==
  LET r == PopReadyNodes(Cur)
  IN /\ Dynamic
     /\ Store(r)
     /\ sincePop' = {}
     /\ UNCHANGED <<depType, phase, nConnect, nUnlink>>

\* ResolveNode: the public entry takes the lock and calls resolveNode.
ResolveNode ==
  \E n \in Allocated(Cur), status \in ResolutionStatus :
    \E r \in node_ResolveNode(Cur, n, status) :
      /\ Dynamic
      /\ Commit(r)
      /\ UNCHANGED <<depType, phase, nConnect, nUnlink>>

Next ==
  \/ DoAddNode
  \/ Connect
  \/ ConnectDependency
  \/ DoDisconnectInbound
  \/ DoDisconnectOutbound
  \/ DoRemove
  \/ DoPushStartingNodes
  \/ DoPopReadyNodes
  \/ ResolveNode

\* ResolveNode of the graph that keeps the resolved dependencies.
ResolveNodeRecording ==
  \E n \in Allocated(Cur), status \in ResolutionStatus :
    \E r \in resolveNodeRecording(Cur, resolvedDependencies, n, status) :
      /\ phase = "resolve"
      /\ StoreGraph(r)
      /\ resolvedDependencies' = r.resolved
      /\ sincePop' = sincePop \cup {h[1] : h \in r.g.enq}
      /\ UNCHANGED <<depType, phase, nConnect, nUnlink, exec>>

\* The dependencies of one node: Dependent is given dependencies of the
\* types And, Or and Optional on the other nodes, PushStartingNodes is
\* called once, then nodes are resolved and popped.
NextDeps ==
  \/ DoAddNode
  \/ ConnectDependency
  \/ DoPushStartingNodes
  \/ DoPopReadyNodes
  \/ ResolveNodeRecording

InitDeps == InitGraph /\ phase = "deps"

\* The executor takes what PopReadyNodes returns and keeps the nodes whose
\* status is Waiting, to resolve them.
ExecPop ==
  LET r == PopReadyNodes(Cur)
  IN /\ phase = "exec"
     /\ StoreGraph(r)
     /\ sincePop' = {}
     /\ exec' = [pending |-> exec.pending
                               \cup {h \in r.val : obj[h].status = Waiting},
                 returned |-> exec.returned \cup {h[1] : h \in r.val}]
     /\ UNCHANGED <<depType, phase, nConnect, nUnlink, resolvedDependencies>>

\* The executor resolves a node it holds, as Resolved or as Unresolvable.
ExecResolve ==
  \E n \in exec.pending, status \in {Resolved, Unresolvable} :
    \E r \in node_ResolveNode(Cur, n, status) :
      /\ phase = "exec"
      /\ StoreGraph(r)
      /\ sincePop' = sincePop \cup {h[1] : h \in r.g.enq}
      /\ exec' = [exec EXCEPT !.pending = @ \ {n}]
      /\ UNCHANGED <<depType, phase, nConnect, nUnlink, resolvedDependencies>>

\* An executor on a graph without cycles: the graph is built along the
\* order of the ids, PushStartingNodes is called once, then the executor
\* pops nodes and resolves the waiting ones it popped.
NextExec ==
  \/ DoAddNode
  \/ ConnectDependency
  \/ DoPushStartingNodes
  \/ ExecPop
  \/ ExecResolve

InitExec == InitGraph /\ phase = "plan"

\* ------------------------------------------------------------ HasCycles
\* HasCycles takes no lock: cloneMap reads d.connectionsToNode key by key
\* while other threads run their calls.
Graph == <<nodes, obj, readyForProcessing, connectionsFromNode,
           connectionsToNode, depType, phase, nConnect, nUnlink, sincePop,
           clone, nCalls, resolvedDependencies, exec>>

HasCyclesBegin ==
  /\ phase = "scan"
  /\ scan.pc = "idle"
  /\ scan' = [NoScan EXCEPT !.pc = "copy",
                            !.cyc = Cyclic(Cur), !.acyc = ~Cyclic(Cur)]
  /\ UNCHANGED Graph

\* result[nodeID1] = copy of tier2, for the next key of the range.
HasCyclesCopy ==
  /\ scan.pc = "copy"
  /\ \E nodeID1 \in DOMAIN connectionsToNode \ DOMAIN scan.copy :
       scan' = [scan EXCEPT
                 !.copy = Put(@, nodeID1,
                              cloneMap(connectionsToNode)[nodeID1])]
  /\ UNCHANGED Graph

\* A map written while it is ranged over: the runtime may stop the program
\* (fatal error: concurrent map iteration and map write).
HasCyclesFatal ==
  /\ scan.pc = "copy"
  /\ scan.raced
  /\ scan' = [scan EXCEPT !.pc = "fatal"]
  /\ UNCHANGED Graph

\* The range is over; the loop runs on the local copy.
HasCyclesEnd ==
  /\ scan.pc = "copy"
  /\ DOMAIN connectionsToNode \subseteq DOMAIN scan.copy
  /\ scan' = [scan EXCEPT !.pc = "done", !.copy = <<>>,
                          !.val = HasCyclesLoop(scan.copy)]
  /\ UNCHANGED Graph

NextScan ==
  \/ DoAddNode
  \/ Connect
  \/ ConnectDependency
  \/ DoDisconnectInbound
  \/ DoDisconnectOutbound
  \/ DoRemove
  \/ HasCyclesBegin
  \/ HasCyclesCopy
  \/ HasCyclesFatal
  \/ HasCyclesEnd

\* ---------------------------------------------------------------- Clone
\* The clone as a graph value over the same node objects store.
CloneCur ==
  [nodes |-> clone.nodes, obj |-> obj,
   readyForProcessing |-> clone.readyForProcessing,
   connectionsFromNode |-> clone.connectionsFromNode,
   connectionsToNode |-> clone.connectionsToNode, enq |-> {}, self |-> 2, lock |-> FALSE, calls |-> 0]

DoClone ==
  LET r == Clone(Cur)
  IN /\ phase = "clone"
     /\ ~clone.on
     /\ \A i \in Ids : HasNode(Cur, i) => Gens(Cur, i) < MaxGen
     /\ nCalls < MaxCalls
     /\ nCalls' = nCalls + 1
     /\ obj' = r.g.obj
     /\ clone' = r.val
     /\ UNCHANGED <<nodes, readyForProcessing, connectionsFromNode,
                    connectionsToNode, depType, phase, nConnect, nUnlink,
                    sincePop, scan, resolvedDependencies, exec>>

\* The end of a call on the clone, with result r.
StoreClone(r) ==
  /\ clone.on
  /\ nCalls < MaxCalls
  /\ nCalls' = nCalls + 1
  /\ obj' = r.g.obj
  /\ clone' = [clone EXCEPT
                !.nodes = r.g.nodes,
                !.readyForProcessing = r.g.readyForProcessing,
                !.connectionsFromNode = r.g.connectionsFromNode,
                !.connectionsToNode = r.g.connectionsToNode]
  /\ UNCHANGED <<nodes, readyForProcessing, connectionsFromNode,
                 connectionsToNode, depType, phase, sincePop, scan,
                 resolvedDependencies, exec>>

CloneAddNode ==
  \E id \in InUse :
    LET r == AddNode(CloneCur, id)
    IN /\ clone.on
       /\ Gens(CloneCur, id) < MaxGen
       /\ r.err = Nil
       /\ StoreClone(r)
       /\ UNCHANGED <<nConnect, nUnlink>>

CloneConnectNodes(r, fromID, toID) ==
  /\ clone.on
  /\ nConnect < MaxConnect
  /\ IdOrder[fromID] < IdOrder[toID]
  /\ r.err = Nil
  /\ StoreClone(r)
  /\ nConnect' = nConnect + 1
  /\ UNCHANGED nUnlink

CloneConnect ==
  \E n \in HandlesOf(CloneCur), nodeID \in Ids :
    CloneConnectNodes(node_Connect(CloneCur, n, nodeID), n[1], nodeID)

CloneConnectDependency ==
  \E n \in HandlesOf(CloneCur), fromNodeID \in Ids,
     dependencyType \in TypesInUse :
    CloneConnectNodes(
      node_ConnectDependency(CloneCur, n, fromNodeID, dependencyType),
      fromNodeID, n[1])

CloneUnlink(r) ==
  /\ clone.on
  /\ nUnlink < MaxUnlink
  /\ r.err = Nil
  /\ StoreClone(r)
  /\ nUnlink' = nUnlink + 1
  /\ UNCHANGED nConnect

CloneDisconnectInbound ==
  \E n \in HandlesOf(CloneCur), fromNodeID \in Ids :
    CloneUnlink(DisconnectInbound(CloneCur, n, fromNodeID))

CloneDisconnectOutbound ==
  \E n \in HandlesOf(CloneCur), toNodeID \in Ids :
    CloneUnlink(DisconnectOutbound(CloneCur, n, toNodeID))

CloneRemove ==
  \E n \in HandlesOf(CloneCur) :
    CloneUnlink(Remove(CloneCur, n))

ClonePushStartingNodes ==
  /\ StoreClone(PushStartingNodes(CloneCur))
  /\ UNCHANGED <<nConnect, nUnlink>>

ClonePopReadyNodes ==
  /\ StoreClone(PopReadyNodes(CloneCur))
  /\ UNCHANGED <<nConnect, nUnlink>>

CloneResolveNode ==
  \E n \in HandlesOf(CloneCur), status \in ResolutionStatus :
    \E r \in node_ResolveNode(CloneCur, n, status) :
      /\ StoreClone(r)
      /\ UNCHANGED <<nConnect, nUnlink>>

\* The calls on the clone.
NextOfClone ==
  \/ CloneAddNode
  \/ CloneConnect
  \/ CloneConnectDependency
  \/ CloneDisconnectInbound
  \/ CloneDisconnectOutbound
  \/ CloneRemove
  \/ ClonePushStartingNodes
  \/ ClonePopReadyNodes
  \/ CloneResolveNode

NextClone ==
  \/ Next
  \/ DoClone
  \/ NextOfClone

Spec == Init /\ [][Next]_vars

SpecClone == InitClone /\ [][NextClone]_vars

SpecScan == InitScan /\ [][NextScan]_vars

SpecRun == InitRun /\ [][Next]_vars
SpecDeps == InitDeps /\ [][NextDeps]_vars
SpecExec == InitExec /\ [][NextExec]_vars
\* The executor goes on popping and resolving as long as there is something
\* to pop or to resolve.
SpecExecLive ==
  SpecExec /\ WF_vars(ExecPop) /\ WF_vars(ExecResolve)

\* =============================================================== claims
\* Shorthands over the current graph.
Terminal(n) == obj[n].status # Waiting
Edge(s, d) == d[1] \in Get(connectionsFromNode, s[1])
Out(d, s) == obj[d].outstandingDependencies[s[1]]
Queued(G, n) == G.readyForProcessing[n[1]] = n[2]

\* C1: once the status of a node object is Resolved or Unresolvable, no
\* operation changes it.
C1_StatusMonotone ==
  [][\A h \in Handles :
       (obj[h].alloc /\ Terminal(h)) => obj'[h].status = obj[h].status]_vars

\* A resolved node was removed and a new node with its id was added: the
\* old object keeps its status, the new one waits.
C1_Witness ==
  \E h \in Allocated(Cur), k \in Live(Cur) :
    /\ h[1] = k[1] /\ obj[h].deleted /\ Terminal(h)
    /\ obj[k].status = Waiting
    /\ \E m \in Live(Cur) : m # k /\ obj[m].status = Unresolvable /\ obj[m].ready

\* C2 as stated: ResolveNode on any node that is already Resolved or
\* Unresolvable returns ErrNodeResolutionAlreadySet and changes nothing.
C2_Original ==
  \A n \in Allocated(Cur), status \in ResolutionStatus :
    Terminal(n) =>
      resolveNode(Cur, n, status) =
        {Result(Called(Cur), "ErrNodeResolutionAlreadySet")}

\* C2 amended: ResolveNode on a node that is already Resolved or
\* Unresolvable changes nothing and returns ErrNodeResolutionAlreadySet, or
\* ErrNodeDeleted when the node has been removed.
C2_Amended ==
  \A n \in Allocated(Cur), status \in ResolutionStatus :
    Terminal(n) =>
      resolveNode(Cur, n, status) =
        {Result(Called(Cur), IF obj[n].deleted THEN "ErrNodeDeleted"
                             ELSE "ErrNodeResolutionAlreadySet")}

\* A resolved node of the graph with a dependent that it made ready and
\* that is waiting in the ready queue.
C2_Witness ==
  \E n \in Live(Cur), d \in Live(Cur) :
    /\ Terminal(n) /\ Edge(n, d) /\ Out(d, n) = NoDep
    /\ obj[d].ready /\ Queued(Cur, d)

\* C3: once the ready flag of a node object is true, no operation sets it
\* back to false.
C3_ReadyMonotone ==
  [][\A h \in Handles :
       (obj[h].alloc /\ obj[h].ready) => obj'[h].ready]_vars

\* A ready node that was given a new And dependency afterwards.
C3_Witness ==
  \E d \in Live(Cur), s \in Live(Cur) :
    obj[d].ready /\ Edge(s, d) /\ Out(d, s) = AndDependency

\* ------------------------------------------------- resolution claims
\* A node of the graph that the caller may still resolve.
CanResolve(s) == s \in Live(Cur) /\ obj[s].status = Waiting
\* Resolving x can make m Unresolvable, which m then passes on.
Relay(x, m) == Edge(x, m) /\ obj[m].status = Waiting
\* Resolving s can reach d by a path other than the edge s -> d.
OtherPath(s, d) ==
  \E m \in Live(Cur) \ {s, d} :
    /\ Relay(s, m)
    /\ \/ Edge(m, d)
       \/ \E k \in Live(Cur) \ {s, d} : Relay(m, k) /\ Edge(k, d)
\* d depends on s through the edge s -> d only.
OnlyDirect(s, d) == s # d /\ Edge(s, d) /\ ~OtherPath(s, d)
Blocking == {AndDependency, OrDependency, CompletionAndDependency}
Inbound(d) == {x \in Live(Cur) : Edge(x, d)}
TypeOf(s, d) == depType[<<s[1], d[1]>>]

\* The readiness condition of C4 in graph G: every And and CompletionAnd
\* source of d is resolved and, if d has Or edges, one Or source is resolved.
Satisfied(G, d) ==
  /\ \A x \in Inbound(d) :
       TypeOf(x, d) \in {AndDependency, CompletionAndDependency}
         => G.obj[x].status # Waiting
  /\ (\E x \in Inbound(d) : TypeOf(x, d) = OrDependency)
       => \E x \in Inbound(d) :
            TypeOf(x, d) = OrDependency /\ G.obj[x].status # Waiting

\* C4: with the graph fixed since PushStartingNodes and sources resolved as
\* Resolved only, a waiting node d with And, Or and CompletionAnd inbound
\* edges is enqueued by exactly the ResolveNode call that completes its
\* readiness condition, and it is Waiting when enqueued.
C4_Claim ==
  phase = "run" =>
    \A d \in Live(Cur) :
      ( /\ obj[d].status = Waiting
        /\ Inbound(d) # {}
        /\ \A x \in Inbound(d) :
             TypeOf(x, d) \in Blocking /\ obj[x].status # Unresolvable )
      => \A s \in Inbound(d) :
           CanResolve(s) =>
             \A r \in resolveNode(Cur, s, Resolved) :
               /\ r.err = Nil
               /\ d \in r.g.enq <=> (Satisfied(r.g, d) /\ ~Satisfied(Cur, d))
               /\ d \in r.g.enq => r.g.obj[d].status = Waiting

\* C5: when an And source s of a waiting node d is resolved Unresolvable,
\* that call makes d ready and Unresolvable and puts it on the ready queue.
C5_Claim ==
  \A s \in Live(Cur), d \in Live(Cur) :
    ( /\ CanResolve(s) /\ s # d /\ Edge(s, d)
      /\ obj[d].status = Waiting /\ Out(d, s) = AndDependency )
    => \A r \in resolveNode(Cur, s, Unresolvable) :
         /\ r.g.obj[d].ready
         /\ r.g.obj[d].status = Unresolvable
         /\ Queued(r.g, d)

\* The waiting nodes reached from s by a path of And edges.
RECURSIVE AndReach(_)
AndReach(seen) ==
  LET more == {d \in Live(Cur) :
                 \E x \in seen : Edge(x, d) /\ Out(d, x) = AndDependency}
  IN IF more \subseteq seen THEN seen ELSE AndReach(seen \cup more)

\* C6: after ResolveNode(s, Unresolvable), every node that was Waiting and
\* is reached from s by a path of And edges is Unresolvable, ready and on
\* the ready queue.
C6_Claim ==
  \A s \in Live(Cur) :
    CanResolve(s) =>
      \A r \in resolveNode(Cur, s, Unresolvable) :
        \A t \in AndReach({s}) \ {s} :
          obj[t].status = Waiting =>
            /\ r.g.obj[t].status = Unresolvable
            /\ r.g.obj[t].ready
            /\ Queued(r.g, t)

\* C7: when an Or source s of a waiting, not ready node d resolves
\* Unresolvable, d stays as it is if another Or entry is outstanding, and
\* otherwise becomes ready and Unresolvable in that call.
C7_Claim ==
  \A s \in Live(Cur), d \in Live(Cur) :
    ( /\ CanResolve(s) /\ OnlyDirect(s, d)
      /\ obj[d].status = Waiting /\ ~obj[d].ready
      /\ Out(d, s) = OrDependency )
    => \A r \in resolveNode(Cur, s, Unresolvable) :
         IF \E x \in Ids : x # s[1] /\ obj[d].outstandingDependencies[x] = OrDependency
         THEN ~r.g.obj[d].ready /\ r.g.obj[d].status = Waiting
              /\ d \notin r.g.enq
         ELSE r.g.obj[d].ready /\ r.g.obj[d].status = Unresolvable
              /\ Queued(r.g, d)

\* C8: resolving a CompletionAnd source s of d as Unresolvable does to d
\* exactly what resolving it as Resolved does, and leaves d Waiting.
C8_Claim ==
  \A s \in Live(Cur), d \in Live(Cur) :
    ( /\ CanResolve(s) /\ OnlyDirect(s, d)
      /\ obj[d].status = Waiting
      /\ Out(d, s) = CompletionAndDependency )
    => \A ru \in resolveNode(Cur, s, Unresolvable),
          rr \in resolveNode(Cur, s, Resolved) :
         /\ ru.g.obj[d] = rr.g.obj[d]
         /\ (d \in ru.g.enq) = (d \in rr.g.enq)
         /\ Queued(ru.g, d) = Queued(rr.g, d)
         /\ ru.g.obj[d].status = Waiting

\* C9: the call in which an Or source s of d resolves Resolved re-types
\* every other Or entry of d to Obviated and no other entry; resolving a
\* source whose Or entry was obviated that way removes the entry and
\* changes nothing else of d.
C9_Claim ==
  \A s \in Live(Cur), d \in Live(Cur) :
    (CanResolve(s) /\ OnlyDirect(s, d)) =>
      /\ Out(d, s) = OrDependency =>
           \A r \in resolveNode(Cur, s, Resolved) :
             r.g.obj[d].outstandingDependencies =
               [x \in Ids |->
                  IF x = s[1] THEN NoDep
                  ELSE IF obj[d].outstandingDependencies[x] = OrDependency
                  THEN ObviatedDependency
                  ELSE obj[d].outstandingDependencies[x]]
      /\ (TypeOf(s, d) = OrDependency /\ Out(d, s) = ObviatedDependency) =>
           \A status \in {Resolved, Unresolvable} :
             \A r \in resolveNode(Cur, s, status) :
               /\ r.g.obj[d] =
                    [obj[d] EXCEPT !.outstandingDependencies[s[1]] = NoDep]
               /\ Queued(r.g, d) = Queued(Cur, d)
               /\ d \notin r.g.enq

\* C10: ResolveNode on a waiting node of the graph returns no error, and
\* every outbound neighbour has been notified when it returns.
C10_Claim ==
  \A s \in Live(Cur), status \in ResolutionStatus :
    CanResolve(s) =>
      \A r \in resolveNode(Cur, s, status) :
        /\ r.err = Nil
        /\ status # Waiting =>
             \A d \in Live(Cur) :
               Edge(s, d) => r.g.obj[d].outstandingDependencies[s[1]] = NoDep

\* ------------------------------------------------- ready-queue claims
\* C11: after the one PushStartingNodes, a node that is ready and no longer
\* on the ready queue (it has been returned by PopReadyNodes) is not put on
\* the queue again by any ResolveNode, so no id is returned twice.
C11_Claim ==
  phase = "run" =>
    \A d \in Live(Cur) :
      (obj[d].ready /\ ~Queued(Cur, d)) =>
        \A s \in Live(Cur), status \in {Resolved, Unresolvable} :
          CanResolve(s) =>
            \A r \in resolveNode(Cur, s, status) : d \notin r.g.enq

\* The entries of n that keep it from being ready.
NoBlocking(G, n) ==
  \A i \in Ids : G.obj[n].outstandingDependencies[i] \notin Blocking
NoEntries(G, n) ==
  \A i \in Ids : G.obj[n].outstandingDependencies[i] = NoDep

\* C12: PushStartingNodes sets ready and enqueues every node whose
\* outstanding map is empty, enqueues no node with an And, Or or
\* CompletionAnd entry, and changes no status and no outstanding map.
C12_Claim ==
  LET r == PushStartingNodes(Cur)
  IN \A h \in Live(Cur) :
       /\ NoEntries(Cur, h) => (r.g.obj[h].ready /\ Queued(r.g, h))
       /\ ~NoBlocking(Cur, h) => h \notin r.g.enq
       /\ r.g.obj[h].status = obj[h].status
       /\ r.g.obj[h].outstandingDependencies = obj[h].outstandingDependencies

\* C13: PushStartingNodes also enqueues a node whose outstanding map is not
\* empty but holds Obviated entries only.
C13_Claim ==
  \A h \in Live(Cur) :
    (NoBlocking(Cur, h) /\ ~NoEntries(Cur, h)) =>
      h \in PushStartingNodes(Cur).g.enq

C15_Claim ==
  \A h \in Live(Cur) : obj[h].ready <=> NoBlocking(Cur, h)

\* C16: every node whose status is Unresolvable is ready.
C16_Claim ==
  \A h \in Allocated(Cur) : obj[h].status = Unresolvable => obj[h].ready

\* C17: the keys of the outstanding map of a node are inbound neighbours of
\* the node; after DisconnectInbound, DisconnectOutbound or Remove of a
\* source its id is no key of the former destination.
C17_Claim ==
  \A d \in Live(Cur) :
    \A i \in Ids :
      obj[d].outstandingDependencies[i] # NoDep
        => i \in Get(connectionsToNode, d[1])

\* C18: for two distinct nodes of the graph with no edge between them,
\* Connect or ConnectDependency followed by the matching DisconnectInbound
\* or DisconnectOutbound restores both adjacency maps and the destination's
\* outstanding map, so PushStartingNodes treats the destination as before.
C18_Claim ==
  \A s \in Live(Cur), d \in Live(Cur), t \in DependencyType :
    (s # d /\ ~Edge(s, d) /\ Out(d, s) = NoDep) =>
      LET c == connectNodes(Cur, s[1], d[1], t)
      IN /\ c.err = Nil
         /\ \A u \in {DisconnectInbound(c.g, d, s[1]),
                      DisconnectOutbound(c.g, s, d[1])} :
              /\ u.err = Nil
              /\ u.g.connectionsFromNode = connectionsFromNode
              /\ u.g.connectionsToNode = connectionsToNode
              /\ u.g.obj[d].outstandingDependencies
                   = obj[d].outstandingDependencies
              /\ (d \in PushStartingNodes(u.g).g.enq)
                   = (d \in PushStartingNodes(Cur).g.enq)

\* ------------------------------------------------- connection claims
\* C19: no node is in its own forward or reverse adjacency set, and
\* connecting a node of the graph to itself, with any dependency type,
\* returns ErrCannotConnectToSelf.
C19_NoSelfEdge ==
  /\ \A i \in DOMAIN connectionsFromNode : i \notin connectionsFromNode[i]
  /\ \A i \in DOMAIN connectionsToNode : i \notin connectionsToNode[i]
  /\ \A n \in Live(Cur), t \in DependencyType :
       connectNodes(Cur, n[1], n[1], t) = Result(Cur, "ErrCannotConnectToSelf")

\* A node of the graph that has an edge to another node and is refused an
\* edge to itself.
C19_Witness ==
  \E n \in Live(Cur), d \in Live(Cur) :
    /\ n # d /\ Edge(n, d) /\ Edge(d, n)
    /\ connectNodes(Cur, n[1], n[1], AndDependency).err
         = "ErrCannotConnectToSelf"

\* C20: a connectNodes call that returns an error leaves the graph as it
\* was; a self-connection, a missing endpoint and an existing edge are
\* errors, and a second connection of an ordered pair that has an edge
\* returns ErrConnectionAlreadyExists whatever its type.
C20_FailedConnect ==
  \A fromID \in Ids, toID \in Ids, t \in DependencyType :
    LET r == connectNodes(Cur, fromID, toID, t)
    IN /\ r.err # Nil => r.g = Cur
       /\ ( \/ fromID = toID
            \/ ~HasNode(Cur, fromID)
            \/ ~HasNode(Cur, toID)
            \/ toID \in Get(connectionsFromNode, fromID) ) => r.err # Nil
       /\ ( /\ HasNode(Cur, fromID) /\ HasNode(Cur, toID) /\ fromID # toID
            /\ toID \in Get(connectionsFromNode, fromID) )
          => /\ r.err = "ErrConnectionAlreadyExists"
             /\ r.g.obj[NodeOf(Cur, toID)].outstandingDependencies[fromID]
                  = obj[NodeOf(Cur, toID)].outstandingDependencies[fromID]

\* An edge of type Or whose pair is connected again with type And.
C20_Witness ==
  \E s \in Live(Cur), d \in Live(Cur) :
    /\ Edge(s, d) /\ Out(d, s) = OrDependency
    /\ connectNodes(Cur, s[1], d[1], AndDependency).err
         = "ErrConnectionAlreadyExists"

\* ------------------------------------------------- node-method claims
\* C21: a.Connect(b) and b.ConnectDependency(a, And) return the same result
\* and the same graph, and on success b is a destination of a, a is a
\* source of b and b's outstanding entry for a has type And.
C21_ConnectEquiv ==
  \A a \in Allocated(Cur), b \in Allocated(Cur) :
    LET x == node_Connect(Cur, a, b[1])
        y == node_ConnectDependency(Cur, b, a[1], AndDependency)
    IN /\ x = y
       /\ x.err = Nil =>
            /\ b[1] \in x.g.connectionsFromNode[a[1]]
            /\ a[1] \in x.g.connectionsToNode[b[1]]
            /\ a[1] \notin Get(connectionsToNode, b[1])
            /\ x.g.obj[NodeOf(Cur, b[1])].outstandingDependencies[a[1]]
                 = AndDependency

\* An And edge a -> b exists and the opposite edge can still be made.
C21_Witness ==
  \E a \in Live(Cur), b \in Live(Cur) :
    /\ Edge(a, b) /\ Out(b, a) = AndDependency
    /\ node_Connect(Cur, b, a[1]).err = Nil

\* C22: every mutating call on the handle of a removed node returns
\* ErrNodeDeleted, and a connection from another node that names the removed
\* node's id fails.
C22_Claim ==
  \A n \in Allocated(Cur) :
    obj[n].deleted =>
      /\ \A id \in Ids :
           /\ node_Connect(Cur, n, id).err = "ErrNodeDeleted"
           /\ \A t \in DependencyType :
                node_ConnectDependency(Cur, n, id, t).err = "ErrNodeDeleted"
           /\ DisconnectInbound(Cur, n, id).err = "ErrNodeDeleted"
           /\ DisconnectOutbound(Cur, n, id).err = "ErrNodeDeleted"
      /\ Remove(Cur, n).err = "ErrNodeDeleted"
      /\ \A status \in ResolutionStatus :
           \A r \in resolveNode(Cur, n, status) : r.err = "ErrNodeDeleted"
      /\ ~HasNode(Cur, n[1]) =>
           \A m \in Live(Cur) :
             /\ node_Connect(Cur, m, n[1]).err # Nil
             /\ \A t \in DependencyType :
                  node_ConnectDependency(Cur, m, n[1], t).err # Nil

\* C23: after n.Remove(), GetNodeByID(n) returns ErrNodeNotFound, n is not
\* in ListNodes nor in the inbound or outbound connections of any other
\* node; AddNode followed by Remove of the new node restores ListNodes and
\* both adjacency maps.
C23_Remove ==
  /\ \A n \in Live(Cur) :
       LET r == Remove(Cur, n)
       IN /\ r.err = Nil
          /\ GetNodeByID(r.g, n[1]).err = "ErrNodeNotFound"
          /\ n[1] \notin ListNodes(r.g)
          /\ ListNodes(r.g) = ListNodes(Cur) \ {n[1]}
          /\ \A m \in Live(Cur) \ {n} :
               /\ n[1] \notin ListInboundConnections(r.g, m).val
               /\ n[1] \notin ListOutboundConnections(r.g, m).val
               /\ ListInboundConnections(r.g, m).val
                    = ListInboundConnections(Cur, m).val \ {n[1]}
               /\ ListOutboundConnections(r.g, m).val
                    = ListOutboundConnections(Cur, m).val \ {n[1]}
  /\ \A id \in Ids :
       (~HasNode(Cur, id) /\ Gens(Cur, id) < MaxGen) =>
         LET a == AddNode(Cur, id)
             r == Remove(a.g, NodeOf(a.g, id))
         IN /\ a.err = Nil /\ r.err = Nil
            /\ ListNodes(a.g) = ListNodes(Cur) \cup {id}
            /\ ListNodes(r.g) = ListNodes(Cur)
            /\ r.g.connectionsFromNode = connectionsFromNode
            /\ r.g.connectionsToNode = connectionsToNode

\* A node was removed that had an edge to a node still in the graph, and a
\* node with edges in both directions can be removed next.
C23_Witness ==
  /\ \E h \in Allocated(Cur), m \in Live(Cur) :
       obj[h].deleted /\ obj[m].outstandingDependencies[h[1]] # NoDep
  /\ \E n \in Live(Cur), m \in Live(Cur) : Edge(n, m) /\ Edge(m, n)

\* ------------------------------------------------- queue drain claim
\* C27: PopReadyNodes returns exactly the nodes whose ids were put on the
\* ready queue since the previous pop and leaves the queue empty, so that a
\* second pop right after it returns nothing; every method runs under the
\* graph mutex, so pops and resolutions of concurrent threads interleave as
\* whole calls.
C27_PopDrains ==
  LET r == PopReadyNodes(Cur)
  IN /\ {h[1] : h \in r.val} = sincePop
     /\ \A h \in r.val : readyForProcessing[h[1]] = h[2]
     /\ ReadyNodes(r.g) = {}
     /\ PopReadyNodes(r.g).val = {}

\* Nodes were popped and a resolution has put another node on the queue.
C27_Witness ==
  /\ phase = "run"
  /\ \E h \in Live(Cur), d \in Live(Cur) :
       /\ Terminal(h) /\ ~Queued(Cur, h)
       /\ Edge(h, d) /\ obj[d].ready /\ Queued(Cur, d)
       /\ sincePop = {d[1]}

\* ------------------------------------------------- HasCycles claims
\* C26: HasCycles returns true exactly when the edge set has a directed
\* cycle and leaves the graph as it is; a call during which no other thread
\* wrote to the graph returns the answer for the graph of that time.
C26_HasCycles ==
  /\ HasCycles(Cur).val = Cyclic(Cur)
  /\ HasCycles(Cur).g = Cur
  /\ (scan.pc = "done" /\ ~scan.raced) =>
       /\ scan.val = scan.cyc
       /\ scan.cyc # scan.acyc

\* HasCycles has returned true for a cycle through three nodes.
C26_Witness ==
  /\ scan.pc = "done" /\ ~scan.raced /\ scan.val
  /\ \E a \in Live(Cur), b \in Live(Cur), c \in Live(Cur) :
       /\ a # b /\ b # c /\ a # c
       /\ Edge(a, b) /\ Edge(b, c) /\ Edge(c, a)

\* C28: every operation holds the mutex while it reads the graph, so
\* HasCycles works on a copy of the reverse adjacency as it was at one time:
\* it ends normally, a true answer means that a graph with a cycle existed
\* during the call, and a false answer that one without a cycle did.
C28_Claim ==
  /\ scan.pc # "fatal"
  /\ scan.pc = "done" =>
       /\ scan.val => scan.cyc
       /\ ~scan.val => scan.acyc

\* ------------------------------------------------------ Clone claims
\* What belongs to the graph and what to its clone: the maps of each and
\* the node objects whose dg field points to it.
ObjsOf(k) ==
  [h \in Handles |-> IF obj[h].alloc /\ obj[h].dg = k THEN obj[h] ELSE NoObj]
ViewGraph ==
  <<nodes, readyForProcessing, connectionsFromNode, connectionsToNode,
    ObjsOf(1)>>
ViewClone == <<clone, ObjsOf(2)>>

\* C24: no call on the clone changes a node, an edge, a status, a ready
\* flag, an outstanding map or the ready queue of the graph it was cloned
\* from, and no call on that graph changes any of these in the clone.
C24_Independent ==
  [][ /\ (ViewGraph' # ViewGraph) => ~NextOfClone
      /\ (clone.on /\ ViewClone' # ViewClone) => ~Next ]_vars

\* The graph and its clone have gone different ways: a node is resolved in
\* one and waiting in the other, and their edges differ.
C24_Witness ==
  /\ clone.on
  /\ clone.connectionsFromNode # connectionsFromNode
  /\ \E i \in Ids :
       /\ HasNode(Cur, i) /\ HasNode(CloneCur, i)
       /\ obj[NodeOf(Cur, i)].status = Waiting
       /\ obj[NodeOf(CloneCur, i)].status = Unresolvable
       /\ obj[NodeOf(CloneCur, i)].ready
  /\ \E i \in Ids :
       /\ HasNode(Cur, i) /\ HasNode(CloneCur, i)
       /\ obj[NodeOf(Cur, i)].status = Resolved
       /\ obj[NodeOf(CloneCur, i)].status = Unresolvable

\* What a caller can see of graph G: ids, edges, the state of every node
\* and the ids on the ready queue.
Abs(G) ==
  [ids |-> ListNodes(G),
   from |-> G.connectionsFromNode,
   to |-> G.connectionsToNode,
   node |-> [i \in ListNodes(G) |->
               [status |-> G.obj[NodeOf(G, i)].status,
                ready |-> G.obj[NodeOf(G, i)].ready,
                deleted |-> G.obj[NodeOf(G, i)].deleted,
                outstanding |-> G.obj[NodeOf(G, i)].outstandingDependencies]],
   queue |-> {i \in Ids : G.readyForProcessing[i] # 0}]
\* The graph that result r of Clone returns.
CloneOf(r) ==
  [nodes |-> r.val.nodes, obj |-> r.g.obj,
   readyForProcessing |-> r.val.readyForProcessing,
   connectionsFromNode |-> r.val.connectionsFromNode,
   connectionsToNode |-> r.val.connectionsToNode, enq |-> {}, self |-> 2, lock |-> FALSE, calls |-> 0]
\* Results of calls as a caller sees them.
AbsAll(rs) == {[g |-> Abs(r.g), err |-> r.err] : r \in rs}

\* C25: the graph returned by Clone has the ids, the edges and, for every
\* node, the status, ready flag and outstanding map of the original at that
\* time, and an empty ready queue; the original is left as it was; the same
\* call made on the clone and on the original (its queue set aside) has the
\* same outcomes.
C25_Snapshot ==
  (\A i \in Ids : HasNode(Cur, i) => Gens(Cur, i) < MaxGen) =>
    LET r == Clone(Cur)
        C == CloneOf(r)
        Q == [Cur EXCEPT !.readyForProcessing = [i \in Ids |-> 0]]
    IN /\ Abs(C) = Abs(Q)
       /\ ReadyNodes(C) = {}
       /\ \A h \in Handles : obj[h].alloc => r.g.obj[h] = obj[h]
       /\ \A i \in ListNodes(Cur) :
            /\ NodeOf(C, i) # NodeOf(Cur, i)
            /\ r.g.obj[NodeOf(C, i)].dg # obj[NodeOf(Cur, i)].dg
            /\ \A status \in ResolutionStatus :
                 AbsAll(resolveNode(C, NodeOf(C, i), status))
                   = AbsAll(resolveNode(Q, NodeOf(Q, i), status))
       /\ AbsAll({PushStartingNodes(C)}) = AbsAll({PushStartingNodes(Q)})

\* Clone was called in the middle of a resolution: a node is resolved, its
\* dependent is ready and still on the queue of the original, and the clone
\* has the same nodes, flags and edges and an empty queue.
C25_Witness ==
  /\ clone.on
  /\ Abs(CloneCur) = [Abs(Cur) EXCEPT !.queue = {}]
  /\ \E s \in Live(Cur), d \in Live(Cur) :
       /\ Edge(s, d) /\ obj[s].status = Resolved
       /\ obj[d].ready /\ obj[d].status = Waiting /\ Queued(Cur, d)
       /\ obj[NodeOf(CloneCur, d[1])].ready

\* --------------------------------------------- resolved dependencies
Recorded(d, s) == resolvedDependencies[d][s[1]]
SourcesOf(d, t) == {s \in Inbound(d) : TypeOf(s, d) = t}
\* An Or source of d has resolved Resolved.
OrDecided(d) == \E x \in SourcesOf(d, OrDependency) : obj[x].status = Resolved

Downstream(n) == Reach(Cur, Get(connectionsFromNode, n[1]))
\* Nothing but the status of n differs between the graph and G.
OnlyStatusOf(G, n) ==
  /\ G.readyForProcessing = readyForProcessing
  /\ G.enq = {}
  /\ \A h \in Handles \ {n} : G.obj[h] = obj[h]
  /\ G.obj[n].ready = obj[n].ready
  /\ G.obj[n].outstandingDependencies = obj[n].outstandingDependencies

\* What C33 says of every graph but one where n lies on a cycle.
FrameOfResolve(n, r) ==
  /\ \A h \in r.g.enq : h[1] \in Downstream(n)
  /\ \A h \in Handles :
       h[1] \notin Downstream(n) \cup {n[1]} => r.g.obj[h] = obj[h]
  /\ Get(connectionsFromNode, n[1]) = {} => OnlyStatusOf(r.g, n)

Mirror(G) ==
  /\ \A s \in DOMAIN G.connectionsFromNode :
       \A d \in G.connectionsFromNode[s] :
         d \in DOMAIN G.connectionsToNode /\ s \in G.connectionsToNode[d]
  /\ \A d \in DOMAIN G.connectionsToNode :
       \A s \in G.connectionsToNode[d] :
         s \in DOMAIN G.connectionsFromNode /\ d \in G.connectionsFromNode[s]
  /\ \A m \in {G.connectionsFromNode, G.connectionsToNode} :
       /\ DOMAIN m \subseteq ListNodes(G)
       /\ \A k \in DOMAIN m : m[k] \subseteq ListNodes(G)

\* C34: in the graph and in its clone, dst is in forward[src] exactly when
\* src is in reverse[dst], and every id in either map is the id of a node
\* of that graph.
C34_Mirror == Mirror(Cur) /\ (clone.on => Mirror(CloneCur))

\* After a Disconnect or Remove, the graph and its clone hold different
\* edge sets and one of them still has an edge.
C34_Witness ==
  /\ clone.on
  /\ nUnlink > 0
  /\ clone.connectionsFromNode # connectionsFromNode
  /\ \E G \in {Cur, CloneCur} :
       \E s \in DOMAIN G.connectionsFromNode : G.connectionsFromNode[s] # {}

\* ------------------------------------------------ the internal failure
Panics ==
  {"panic: ErrDuplicateDependencyResolution",
   "panic: ErrConnectionDoesNotExist"}

\* C35: no ResolveNode call, on any handle of the graph or of its clone and
\* with any status, ends in the panic of dependencyResolved.
C35_NoPanic ==
  \A G \in {Cur} \cup (IF clone.on THEN {CloneCur} ELSE {}) :
    \A n \in HandlesOf(G), status \in ResolutionStatus :
      \A r \in resolveNode(G, n, status) : r.err \notin Panics

\* An id was removed, added again and connected into a cycle; the
\* resolution of its new node went round the cycle and came back to it.
C35_Witness ==
  \E s \in Live(Cur), d \in Live(Cur) :
    /\ s[2] = 2 /\ s # d /\ Edge(s, d) /\ Edge(d, s)
    /\ obj[s].status = Unresolvable /\ obj[d].status = Unresolvable
    /\ obj[s].ready /\ obj[d].ready
    /\ Out(d, s) = NoDep /\ Out(s, d) = NoDep

\* ------------------------------------------------ errors of ResolveNode
\* C36: a ResolveNode call that returns an error leaves the graph as it
\* was: no status, ready flag or outstanding map is changed and nothing is
\* put on the ready queue.
C36_Claim ==
  \A n \in Allocated(Cur), status \in ResolutionStatus :
    \A r \in resolveNode(Cur, n, status) :
      r.err # Nil =>
        /\ r.g.obj = obj
        /\ r.g.readyForProcessing = readyForProcessing
        /\ r.g.enq = {}

\* ------------------------------------------------------- the executor
\* Every node of the graph was returned by PopReadyNodes and is resolved.
AllDone ==
  \A h \in Live(Cur) : h[1] \in exec.returned /\ Terminal(h)

\* What C37 compares: the status and the ready flag of every node and the
\* ids put on the ready queue.
Outcome(G) ==
  [node |-> [h \in Allocated(Cur) |-> <<G.obj[h].status, G.obj[h].ready>>],
   enqueued |-> {h[1] : h \in G.enq}]
Outcomes == {Resolved, Unresolvable}

\* C37: the status and ready flag of every node and the ids enqueued do not
\* depend on the order in which a call visits the outbound neighbours, nor
\* on the order of two calls the executor has to make.
C37_Claim ==
  /\ \A n \in exec.pending, s \in Outcomes :
       \A r1 \in resolveNode(Cur, n, s), r2 \in resolveNode(Cur, n, s) :
         Outcome(r1.g) = Outcome(r2.g)
  /\ \A m \in exec.pending, n \in exec.pending :
       m # n =>
         \A sm \in Outcomes, sn \in Outcomes :
           \A r1 \in resolveNode(Cur, m, sm), r2 \in resolveNode(Cur, n, sn) :
             \A r12 \in resolveNode(r1.g, n, sn),
                r21 \in resolveNode(r2.g, m, sm) :
               Outcome(r12.g) = Outcome(r21.g)

\* C38: once PushStartingNodes was called on a graph without cycles, an
\* executor that resolves every waiting node it pops gets every node from
\* PopReadyNodes in the end, and every node ends Resolved or Unresolvable.
C38_Progress == (phase = "exec") ~> AllDone

\* ------------------------------------------- termination and the lock
\* C39: from every state, a ResolveNode call on any handle returns after at
\* most one call of resolveNode per waiting node and one more, never locks
\* the graph mutex a second time, and has released it when it returns.
C39_Terminates ==
  \A n \in Allocated(Cur), status \in ResolutionStatus :
    \A r \in node_ResolveNode(Cur, n, status) :
      /\ r.err # Deadlock
      /\ ~r.g.lock
      /\ r.g.calls <= Cardinality({m \in Live(Cur) : obj[m].status = Waiting}) + 1
      /\ \A m \in Allocated(Cur) :
           \A q \in node_ResolveNode(r.g, m, Resolved) : q.err # Deadlock

\* A graph with a cycle on which a call goes round the cycle: three calls
\* of resolveNode for two nodes, the last one refused.
C39_Witness ==
  /\ Cyclic(Cur)
  /\ \E n \in Live(Cur) :
       \E r \in node_ResolveNode(Cur, n, Unresolvable) :
         /\ r.g.calls = 3
         /\ r.err = "ErrNodeResolutionAlreadySet"
         /\ \A m \in Live(Cur) : r.g.obj[m].status = Unresolvable

\* ------------------------------------------------- removed handles
\* The calls that can be made through the handle n.
CallsOn(n) ==
  {node_Connect(Cur, n, i) : i \in Ids}
  \cup {node_ConnectDependency(Cur, n, i, t) : i \in Ids, t \in DependencyType}
  \cup {DisconnectInbound(Cur, n, i) : i \in Ids}
  \cup {DisconnectOutbound(Cur, n, i) : i \in Ids}
  \cup {Remove(Cur, n)}
  \cup UNION {{Result(r.g, r.err) : r \in node_ResolveNode(Cur, n, status)}
               : status \in ResolutionStatus}

\* C40: when a node was removed and its id added again, no call through
\* the handle of the removed node changes the graph.
C40_Claim ==
  \A n \in Allocated(Cur) :
    (obj[n].deleted /\ HasNode(Cur, n[1])) =>
      \A r \in CallsOn(n) :
        /\ r.g.nodes = nodes
        /\ r.g.obj = obj
        /\ r.g.connectionsFromNode = connectionsFromNode
        /\ r.g.connectionsToNode = connectionsToNode
        /\ r.g.readyForProcessing = readyForProcessing

====
